---- MODULE Spec2Model ----
(***************************************************************************)
(* express-jwt-users: the credential validator (src/src/credentials.js),   *)
(* the router, the authorize/register handlers, the '/:user' resource      *)
(* guard and the secret provisioner getRandomBytesFrom (src/src/index.js). *)
(*                                                                         *)
(* Strings are sequences of character codes, so that the regular           *)
(* expressions of credentials.js are evaluated character by character.     *)
(* Several server processes (cluster workers) mount the same router over   *)
(* one shared secrets directory and one shared collection; inside one      *)
(* process every callback runs to completion, between processes the file   *)
(* system calls interleave.                                                *)
(***************************************************************************)
EXTENDS Integers, Sequences, FiniteSets, TLC

(* ------------------------------ bounds --------------------------------- *)
\* number of server processes sharing secretsDir and the collection
NumProcs == 2
\* number of distinct values crypto.randomBytes can return
NumSecrets == 2

Procs == 1..NumProcs
Secrets == 1..NumSecrets

(* ------------------------- characters and strings ---------------------- *)
UpperCase == 65..90
LowerCase == 97..122
Digits == 48..57
Underscore == 95
\* characters the regular expression dot does not match
LineTerminators == {10, 13}

\* the bracket expression of PASSWORD_REGEX, item by item as the regular
\* expression engine reads it: ~ ` ! @ # $ % ^ & * (  then the range )-_
\* then + = { } [ ] | ; : " < > , . / ?
SpecialClass ==
    {126, 96, 33, 64, 35, 36, 37, 94, 38, 42, 40}
      \cup (41..95)
      \cup {43, 61, 123, 125, 91, 93, 124, 59, 58, 34, 60, 62, 44, 46, 47, 63}

\* the {8,} quantifier of PASSWORD_REGEX
MinPasswordLength == 8

HasCharIn(s, class) == \E i \in 1..Len(s) : s[i] \in class

\* /^(?=.*[A-Z])(?=.*[a-z])(?=.*[0-9])(?=.*[...]).{8,}$/
PASSWORD_REGEX(s) ==
    /\ HasCharIn(s, UpperCase)
    /\ HasCharIn(s, LowerCase)
    /\ HasCharIn(s, Digits)
    /\ HasCharIn(s, SpecialClass)
    /\ Len(s) >= MinPasswordLength
    /\ ~HasCharIn(s, LineTerminators)

\* '^[a-z0-9_]+$'
UsernamePattern(s) ==
    /\ Len(s) >= 1
    /\ \A i \in 1..Len(s) : s[i] \in LowerCase \cup Digits \cup {Underscore}

(* ------------------------------ JSON values ---------------------------- *)
Undefined == [t |-> "undefined", v |-> <<>>]
Number == [t |-> "number", v |-> <<>>]
Str(s) == [t |-> "string", v |-> s]

\* jsonschema: one property against {type: 'string', pattern}; an undefined
\* instance is skipped, a non-string fails 'type', a string is matched
PropertyFails(val, matches) ==
    /\ val.t # "undefined"
    /\ \/ val.t # "string"
       \/ ~matches

\* validate: with throwError the first error is thrown; 'properties' is
\* visited before 'required', username before password.  The result is the
\* thrown error's property, or "ok".
validate(credentials) ==
    IF PropertyFails(credentials.username, UsernamePattern(credentials.username.v))
    THEN "instance.username"
    ELSE IF PropertyFails(credentials.password, PASSWORD_REGEX(credentials.password.v))
    THEN "instance.password"
    ELSE IF credentials.username.t = "undefined" \/ credentials.password.t = "undefined"
    THEN "instance"
    ELSE "ok"

\* Credentials.middleware, always letting the request through
middlewareNoCatch(body) == "next"

\* Credentials.middleware: "next" or the message of the 400 response
middleware(body) ==
    CASE validate(body) = "ok" -> "next"
      [] validate(body) = "instance.password" -> "PasswordPolicy"
      [] validate(body) = "instance.username" -> "UsernamePolicy"
      [] OTHER -> "ValidationGeneric"

(* ------------------------------ sample inputs -------------------------- *)
\* "a1", "b_", "B", "a b", "authorize"
UserAlice == <<97, 49>>
UserBob == <<98, 95>>
UserUpper == <<66>>
UserSpace == <<97, 32, 98>>
SegAuthorize == <<97, 117, 116, 104, 111, 114, 105, 122, 101>>
\* "Abcdef1!", "Abcdefg1", "Ab1!", "abcdef1!", "ABCDEF1!", "Abcdefg!",
\* "abcdefg1", "Abcdefg_"
PwGood == <<65, 98, 99, 100, 101, 102, 49, 33>>
PwAlnum == <<65, 98, 99, 100, 101, 102, 103, 49>>
PwShort == <<65, 98, 49, 33>>
PwNoUpper == <<97, 98, 99, 100, 101, 102, 49, 33>>
PwNoLower == <<65, 66, 67, 68, 69, 70, 49, 33>>
PwNoDigit == <<65, 98, 99, 100, 101, 102, 103, 33>>
PwLowerDigit == <<97, 98, 99, 100, 101, 102, 103, 49>>
PwUnderscore == <<65, 98, 99, 100, 101, 102, 49, 95>>

Credentials(u, pw) == [username |-> u, password |-> pw]
EmptyBody == Credentials(Undefined, Undefined)

\* request bodies of the running system
Bodies ==
    {Credentials(Str(u), Str(pw)) : u \in {UserAlice}, pw \in {PwGood, PwAlnum, PwShort}}
      \cup {Credentials(Str(UserAlice), Undefined),
            Credentials(Number, Str(PwGood))}

\* request bodies the validator is exercised on
AllBodies ==
    {Credentials(u, pw) :
        u \in {Str(UserAlice), Str(UserBob), Str(UserUpper), Str(UserSpace),
               Str(<<>>), Number, Undefined},
        pw \in {Str(PwGood), Str(PwAlnum), Str(PwShort), Str(PwNoUpper),
                Str(PwNoLower), Str(PwNoDigit), Str(PwLowerDigit),
                Str(PwUnderscore),
                Str(<<>>), Number, Undefined}}

(* ------------------------------ tokens --------------------------------- *)
CollectionName == "users"
OtherAudience == "admins"
SecretsDir == "secrets"

NoToken == [kind |-> "none", sig |-> 0, aud |-> "", sub |-> <<>>]
Malformed == [kind |-> "malformed", sig |-> 0, aud |-> "", sub |-> <<>>]
\* JWT.sign({aud, sub, context}, secret): sig is the key that signed it
JWTSign(aud, sub, secret) == [kind |-> "jwt", sig |-> secret, aud |-> aud, sub |-> sub]

\* bearer tokens a client may present
Tokens ==
    {NoToken, Malformed}
      \cup {JWTSign(CollectionName, u, s) : u \in {UserAlice, UserBob}, s \in Secrets}
      \cup {JWTSign(OtherAudience, UserAlice, s) : s \in Secrets}

\* jsonwebtoken.verify(token, secret, options): the signature, and the
\* audience when options.audience is given
JWTVerify(token, secret, options) ==
    /\ token.kind = "jwt"
    /\ token.sig = secret
    /\ ("audience" \in DOMAIN options => token.aud = options.audience)

\* the options object handed to ExpressJWT
GuardOptions(secret, name) == [secret |-> secret, aud |-> name]

\* ExpressJWT(options): TRUE when it sets req.user and calls next(),
\* FALSE when it calls next(UnauthorizedError)
ExpressJWT(options, token) == JWTVerify(token, options.secret, options)

(* ------------------------------ state ---------------------------------- *)
VARIABLES
    fs,         \* secret files: path -> secret, or Absent
    dirs,       \* directories that exist
    collState,  \* per process: collectionPromise "pending" | "resolved" | "rejected"
    guard,      \* per process: the '/:user' middleware, once attached
    call,       \* per process: a getRandomBytesFrom call between read and write
    db,         \* the collection's documents
    req,        \* the request being handled and what was answered
    returned,   \* secrets getRandomBytesFrom has returned
    writes      \* writeFileSync calls made on the secret path

vars == <<fs, dirs, collState, guard, call, db, req, returned, writes>>

Absent == 0
SecretPath == <<SecretsDir, CollectionName>>
dirname(path) == path[1]

NoGuard == [attached |-> FALSE, options |-> GuardOptions(0, "")]
Idle == [active |-> FALSE, cont |-> "none", sawAbsent |-> FALSE]

\* what a client sends
Request(route, method, body, token, user) ==
    [route |-> route, method |-> method, body |-> body, token |-> token, user |-> user]

Requests ==
    {Request("root", "POST", b, NoToken, <<>>) : b \in Bodies}
      \cup {Request("authorize", "POST", b, NoToken, SegAuthorize) : b \in Bodies}
      \cup {Request("authorize", "GET", EmptyBody, NoToken, SegAuthorize)}
      \cup {Request("authorize", "PUT", EmptyBody, t, SegAuthorize) :
                t \in {NoToken} \cup {JWTSign(CollectionName, UserAlice, s) : s \in Secrets}}
      \cup {Request("user", "GET", EmptyBody, t, UserAlice) : t \in Tokens}

\* the request slot: the request, the process serving it, and the outcome so far
Slot(p, r, pc) ==
    [proc |-> p, route |-> r.route, method |-> r.method, body |-> r.body,
     token |-> r.token, user |-> r.user, pc |-> pc, handler |-> "none",
     status |-> 0, msg |-> "none", msgMethod |-> "", msgSub |-> <<>>,
     passedOn |-> FALSE, guarded |-> FALSE, storage |-> "none",
     query |-> EmptyBody, found |-> FALSE, tokenOut |-> NoToken]

NoRequest == Slot(1, Request("root", "GET", EmptyBody, NoToken, <<>>), "idle")

(* ------------------------------ the router ----------------------------- *)
\* the router without router.all('/authorize'): '/authorize' reaches '/:user'
RouteWithoutAll(r, attached) ==
    CASE r.route = "root" /\ r.method = "POST" -> "register"
      [] r.route = "authorize" /\ r.method = "POST" -> "authorize"
      [] r.route \in {"authorize", "user"} /\ attached -> "guard"
      [] OTHER -> "fallthrough"

\* the route stack in registration order: POST '/', POST '/authorize',
\* ALL '/authorize', then '/:user' once the guard is attached; a request no
\* layer answers leaves the router through next()
Route(r, attached) ==
    CASE r.route = "root" /\ r.method = "POST" -> "register"
      [] r.route = "authorize" /\ r.method = "POST" -> "authorize"
      [] r.route = "authorize" /\ r.method # "POST" -> "allAuthorize"
      [] r.route = "user" /\ attached -> "guard"
      [] OTHER -> "fallthrough"

\* the third '/:user' middleware: 401 when req.params.user differs from
\* req.user.sub, and next() in either case
SubjectCheck(s) ==
    IF s.user # s.token.sub
    THEN [s EXCEPT !.status = 401, !.msg = "NoPermission",
                   !.msgSub = s.token.sub, !.passedOn = TRUE]
    ELSE [s EXCEPT !.passedOn = TRUE]

\* the '/:user' stack: ExpressJWT, the UnauthorizedError handler, SubjectCheck
Guard(s, g) ==
    IF ExpressJWT(g.options, s.token)
    THEN SubjectCheck([s EXCEPT !.guarded = TRUE])
    ELSE [s EXCEPT !.guarded = TRUE, !.status = 401, !.msg = "Unauthorized"]

\* the synchronous part of handling request r in process p
Dispatch(p, r) ==
    LET s == Slot(p, r, "done")
        h == Route(r, guard[p].attached)
    IN  CASE h \in {"register", "authorize"} ->
               IF middleware(r.body) = "next"
               THEN [s EXCEPT !.pc = "await", !.handler = h]
               ELSE [s EXCEPT !.handler = h, !.status = 400, !.msg = middleware(r.body)]
          [] h = "allAuthorize" ->
               [s EXCEPT !.handler = h, !.status = 400, !.msg = "UsePostInstead",
                         !.msgMethod = r.method]
          [] h = "guard" -> Guard([s EXCEPT !.handler = h], guard[p])
          [] OTHER -> [s EXCEPT !.handler = h, !.passedOn = TRUE]

(* ------------------------------ collaborators -------------------------- *)
NullUser == EmptyBody
\* collection.insertOne rejects a username that is already stored
insertOneFails(doc) == \E d \in db : d.username = doc.username
\* collection.findOne(query): the document equal to the query, or null
findOne(query) == IF query \in db THEN query ELSE NullUser

\* authorize without the null check
UserNeverMissing(user) == FALSE
\* authorize: if (!user) throw
UserMissing(user) == user = NullUser

\* fs.readFileSync failing whatever the file holds
readFileSyncThrows(path) == Absent
\* fs.readFileSync(path): the content, or Absent when the read throws
readFileSync(path) == fs[path]
\* fs.writeFileSync that persists nothing
writeFileSyncDropped(path, secret) == fs
\* fs.writeFileSync(path, secret)
writeFileSync(path, secret) == [fs EXCEPT ![path] = secret]
mkdirp(dir) == dirs \cup {dir}

Attached(secret) == [attached |-> TRUE, options |-> GuardOptions(secret, CollectionName)]
\* getRandomBytesFrom after the failed read, before the catch branch writes
Pending(cont) ==
    [active |-> TRUE, cont |-> cont, sawAbsent |-> fs[SecretPath] = Absent]

(* ------------------------------ actions -------------------------------- *)
Init ==
    /\ fs = [path \in {SecretPath} |-> Absent]
    /\ dirs = {}
    /\ collState = [p \in Procs |-> "pending"]
    /\ guard = [p \in Procs |-> NoGuard]
    /\ call = [p \in Procs |-> Idle]
    /\ db = {}
    /\ req = NoRequest
    /\ returned = {}
    /\ writes = 0

\* a request arrives at process p and runs through the router
Receive(p, r) ==
    /\ req.pc \in {"idle", "done"}
    /\ ~call[p].active
    /\ req' = Dispatch(p, r)
    /\ UNCHANGED <<fs, dirs, collState, guard, call, db, returned, writes>>

\* collectionPromise resolves in process p: the callback registered by Users
\* runs getRandomBytesFrom and attaches the guard
CollectionResolved(p) ==
    /\ collState[p] = "pending"
    /\ collState' = [collState EXCEPT ![p] = "resolved"]
    /\ dirs' = mkdirp(dirname(SecretPath))
    /\ IF readFileSync(SecretPath) # Absent
       THEN /\ guard' = [guard EXCEPT ![p] = Attached(readFileSync(SecretPath))]
            /\ returned' = returned \cup {readFileSync(SecretPath)}
            /\ UNCHANGED call
       ELSE /\ call' = [call EXCEPT ![p] = Pending("attach")]
            /\ UNCHANGED <<guard, returned>>
    /\ UNCHANGED <<fs, db, req, writes>>

\* collectionPromise rejects in process p: nothing is attached
CollectionRejected(p) ==
    /\ collState[p] = "pending"
    /\ collState' = [collState EXCEPT ![p] = "rejected"]
    /\ UNCHANGED <<fs, dirs, guard, call, db, req, returned, writes>>

\* the catch branch of getRandomBytesFrom: crypto.randomBytes, writeFileSync,
\* return; then the caller goes on with the secret
WriteSecret(p) ==
    /\ call[p].active
    /\ \E secret \in Secrets :
          /\ fs' = writeFileSync(SecretPath, secret)
          /\ returned' = returned \cup {secret}
          /\ IF call[p].cont = "attach"
             THEN /\ guard' = [guard EXCEPT ![p] = Attached(secret)]
                  /\ UNCHANGED req
             ELSE /\ req' = [req EXCEPT !.pc = "done", !.status = 200, !.msg = "Token",
                               !.tokenOut = JWTSign(CollectionName,
                                                    req.body.username.v, secret)]
                  /\ UNCHANGED guard
    /\ writes' = writes + 1
    /\ call' = [call EXCEPT ![p] = Idle]
    /\ UNCHANGED <<dirs, collState, db>>

\* register, once collectionPromise has settled
Register(p) ==
    /\ req.pc = "await" /\ req.handler = "register" /\ req.proc = p
    /\ collState[p] # "pending" /\ ~call[p].active
    /\ IF collState[p] = "rejected"
       THEN /\ req' = [req EXCEPT !.pc = "done", !.status = 400, !.msg = "CollectionError"]
            /\ UNCHANGED db
       ELSE IF insertOneFails(req.body)
       THEN /\ req' = [req EXCEPT !.pc = "done", !.status = 400, !.msg = "StorageError",
                         !.storage = "insertOne", !.query = req.body]
            /\ UNCHANGED db
       ELSE /\ req' = [req EXCEPT !.pc = "done", !.status = 200, !.msg = "InsertResult",
                         !.storage = "insertOne", !.query = req.body]
            /\ db' = db \cup {req.body}
    /\ UNCHANGED <<fs, dirs, collState, guard, call, returned, writes>>

\* authorize, once collectionPromise has settled
Authorize(p) ==
    /\ req.pc = "await" /\ req.handler = "authorize" /\ req.proc = p
    /\ collState[p] # "pending" /\ ~call[p].active
    /\ IF collState[p] = "rejected"
       THEN /\ req' = [req EXCEPT !.pc = "done", !.status = 403, !.msg = "CollectionError"]
            /\ UNCHANGED <<dirs, call, returned>>
       ELSE LET user == findOne(req.body)
                asked == [req EXCEPT !.storage = "findOne", !.query = req.body,
                                     !.found = (user # NullUser)]
            IN  IF UserMissing(user)
                THEN /\ req' = [asked EXCEPT !.pc = "done", !.status = 403,
                                             !.msg = "NoUserFound"]
                     /\ UNCHANGED <<dirs, call, returned>>
                ELSE /\ dirs' = mkdirp(dirname(SecretPath))
                     /\ IF readFileSync(SecretPath) # Absent
                        THEN /\ req' = [asked EXCEPT !.pc = "done", !.status = 200,
                                          !.msg = "Token",
                                          !.tokenOut = JWTSign(CollectionName,
                                                          req.body.username.v,
                                                          readFileSync(SecretPath))]
                             /\ returned' = returned \cup {readFileSync(SecretPath)}
                             /\ UNCHANGED call
                        ELSE /\ req' = [asked EXCEPT !.pc = "signing"]
                             /\ call' = [call EXCEPT ![p] = Pending("sign")]
                             /\ UNCHANGED returned
    /\ UNCHANGED <<fs, collState, guard, db, writes>>

NoCallInProgress == \A p \in Procs : ~call[p].active

Next ==
    \/ \E p \in Procs, r \in Requests : Receive(p, r)
    \/ \E p \in Procs : CollectionResolved(p)
    \/ \E p \in Procs : CollectionRejected(p)
    \/ \E p \in Procs : WriteSecret(p)
    \/ \E p \in Procs : Register(p)
    \/ \E p \in Procs : Authorize(p)

\* the processes share the file system and run concurrently
Spec == Init /\ [][Next]_vars

\* getRandomBytesFrom calls made one after the other: a call starts only
\* when no other call is between its read and its write
NextSeq ==
    \/ \E p \in Procs : WriteSecret(p)
    \/ NoCallInProgress /\ \E p \in Procs : CollectionResolved(p)
    \/ NoCallInProgress /\ \E p \in Procs : Authorize(p)
    \/ NoCallInProgress /\ \E p \in Procs : CollectionRejected(p)
    \/ NoCallInProgress /\ \E p \in Procs : Register(p)
    \/ NoCallInProgress /\ \E p \in Procs, r \in Requests : Receive(p, r)

SpecSeq == Init /\ [][NextSeq]_vars

\* the validator applied to every sample body, on both credential routes
InitValidate ==
    /\ fs = [path \in {SecretPath} |-> Absent]
    /\ dirs = {}
    /\ collState = [p \in Procs |-> "pending"]
    /\ guard = [p \in Procs |-> NoGuard]
    /\ call = [p \in Procs |-> Idle]
    /\ db = {}
    /\ \E b \in AllBodies, route \in {"root", "authorize"} :
          req = Slot(1, Request(route, "POST", b, NoToken, <<>>), "arrived")
    /\ returned = {}
    /\ writes = 0

RunMiddleware ==
    /\ req.pc = "arrived"
    /\ req' = Dispatch(req.proc, Request(req.route, req.method, req.body, req.token, req.user))
    /\ UNCHANGED <<fs, dirs, collState, guard, call, db, returned, writes>>

SpecValidate == InitValidate /\ [][RunMiddleware]_vars

(* ------------------------------ properties ----------------------------- *)
Handled == req.pc = "done"
GuardSecret(p) == guard[p].options.secret

\* C1: a request the guard handled is passed on to the downstream handlers
\* only if its token verified and the token's subject equals the <user>
\* segment; a verified token with another subject is answered 401 with a
\* message naming that subject and is not passed on.
C1_SubjectCheck ==
    (Handled /\ req.handler = "guard") =>
        /\ req.passedOn =>
              /\ ExpressJWT(guard[req.proc].options, req.token)
              /\ req.token.sub = req.user
        /\ (ExpressJWT(guard[req.proc].options, req.token) /\ req.token.sub # req.user) =>
              /\ req.status = 401
              /\ req.msg = "NoPermission"
              /\ req.msgSub = req.token.sub
              /\ ~req.passedOn

\* C2: in every state after the router is constructed, a request to
\* /<user>/... with no bearer token, a malformed one, or one signed with a key
\* the provisioner never returned, is answered 401 and is not passed on.
C2_GuardCoverage ==
    (Handled /\ req.route = "user"
       /\ (req.token.kind # "jwt" \/ req.token.sig \notin returned)) =>
        /\ req.status = 401
        /\ ~req.passedOn

\* C3: with sequential getRandomBytesFrom calls, every call returns the same
\* secret, the one persisted at the path; the file is written at most once,
\* and a write is pending only while no secret exists.
C3_ProvisionerIdempotent ==
    /\ Cardinality(returned) <= 1
    /\ returned \subseteq {fs[SecretPath]}
    /\ writes <= 1
    /\ (writes = 0) <=> (fs[SecretPath] = Absent)
    /\ \A p \in Procs : call[p].active => fs[SecretPath] = Absent

\* C3 witness: both an attachment and an authorize call have returned the
\* secret that a single write created.
C3_Witness ==
    /\ \A p \in Procs : guard[p].attached
    /\ req.handler = "authorize" /\ req.tokenOut.kind = "jwt"
    /\ writes = 1

\* C4: POST /authorize answers with a token only if findOne, asked with
\* exactly the submitted credentials, returned a stored user; when findOne
\* returns none the answer is 403 "no user found" and no token is signed.
C4_TokenOnlyForFoundUser ==
    (req.handler = "authorize") =>
        /\ (req.tokenOut.kind = "jwt" \/ req.pc = "signing") =>
              /\ req.storage = "findOne"
              /\ req.query = req.body
              /\ req.found
              /\ req.body \in db
        /\ (req.storage = "findOne" /\ ~req.found) =>
              /\ Handled
              /\ req.status = 403
              /\ req.msg = "NoUserFound"
              /\ req.tokenOut = NoToken

\* C4 witness: valid credentials whose username is stored with another
\* password were refused.
C4_Witness ==
    /\ Handled /\ req.handler = "authorize"
    /\ req.storage = "findOne" /\ ~req.found /\ req.status = 403
    /\ \E d \in db : d.username = req.body.username

\* C5: every token authorize issues for username u carries subject u and the
\* namespace as audience, is signed with the secret the guard of that router
\* verifies with, and the guard lets a request for /u/... carrying it through.
C5_TokenRoundTrip ==
    (req.handler = "authorize" /\ req.tokenOut.kind = "jwt") =>
        /\ req.tokenOut.sub = req.body.username.v
        /\ req.tokenOut.aud = CollectionName
        /\ guard[req.proc].attached
        /\ req.tokenOut.sig = GuardSecret(req.proc)
        /\ LET g == Guard(Slot(req.proc,
                               Request("user", "GET", EmptyBody, req.tokenOut,
                                       req.tokenOut.sub), "done"),
                          guard[req.proc])
           IN  g.passedOn /\ g.status = 0

\* C6: on POST / and POST /authorize a body that fails validation is answered
\* 400, reaches neither insertOne nor findOne and gets no token; the storage
\* is only ever called with, and only ever holds, validated credentials.
C6_ValidationPrecedesStorage ==
    /\ (req.pc # "idle" /\ req.method = "POST" /\ req.route \in {"root", "authorize"}) =>
          /\ validate(req.body) # "ok" =>
                /\ Handled
                /\ req.status = 400
                /\ req.storage = "none"
                /\ req.tokenOut = NoToken
          /\ req.storage # "none" =>
                /\ req.query = req.body
                /\ validate(req.query) = "ok"
    /\ \A d \in db : validate(d) = "ok"

\* C6 witness: a stored user exists and a registration with an invalid body
\* was refused.
C6_Witness ==
    /\ Handled /\ req.route = "root" /\ req.method = "POST"
    /\ validate(req.body) # "ok" /\ req.status = 400
    /\ db # {}

\* the special characters as the bracket expression lists them, each taken
\* literally
SpecialListed ==
    {126, 96, 33, 64, 35, 36, 37, 94, 38, 42, 40, 41, 45, 95, 43, 61, 123, 125,
     91, 93, 124, 59, 58, 34, 60, 62, 44, 46, 47, 63}

\* the rule set as the specification words it
PolicyAccepts(c) ==
    /\ c.username.t = "string"
    /\ Len(c.username.v) >= 1
    /\ \A i \in 1..Len(c.username.v) :
          c.username.v[i] \in LowerCase \cup Digits \cup {Underscore}
    /\ c.password.t = "string"
    /\ Len(c.password.v) >= MinPasswordLength
    /\ HasCharIn(c.password.v, UpperCase)
    /\ HasCharIn(c.password.v, LowerCase)
    /\ HasCharIn(c.password.v, Digits)
    /\ HasCharIn(c.password.v, SpecialListed)

LettersAndDigitsOnly(s) ==
    \A i \in 1..Len(s) : s[i] \in UpperCase \cup LowerCase \cup Digits

\* C7: validate accepts exactly the credentials the rule set describes; in
\* particular a password of 8 or more letters and digits only is rejected
\* with the password-policy message.
C7_ValidatorRuleSet ==
    (req.pc # "arrived") =>
        /\ (req.pc = "await") <=> PolicyAccepts(req.body)
        /\ (/\ PolicyAccepts(Credentials(req.body.username, Str(PwGood)))
            /\ req.body.password.t = "string"
            /\ Len(req.body.password.v) >= MinPasswordLength
            /\ LettersAndDigitsOnly(req.body.password.v)) =>
              /\ req.status = 400
              /\ req.msg = "PasswordPolicy"

\* C8: a guarded request whose token is signed with the guard's secret but
\* whose audience is not the namespace is rejected as unauthorized with 401
\* and does not reach the downstream handlers.
C8_AudienceCheck ==
    (/\ Handled /\ req.handler = "guard"
     /\ req.token.kind = "jwt"
     /\ req.token.sig = GuardSecret(req.proc)
     /\ req.token.aud # CollectionName) =>
        /\ req.status = 401
        /\ req.msg = "Unauthorized"
        /\ ~req.passedOn

\* C9: a request to /authorize with a method other than POST is answered 400
\* with a message naming its method and 'use POST instead'; the guard never
\* handles it, findOne is not called and no token is signed.
C9_NonPostAuthorize ==
    (req.pc # "idle" /\ req.route = "authorize" /\ req.method # "POST") =>
        /\ Handled
        /\ req.handler = "allAuthorize"
        /\ req.status = 400
        /\ req.msg = "UsePostInstead"
        /\ req.msgMethod = req.method
        /\ ~req.guarded
        /\ ~req.passedOn
        /\ req.storage = "none"
        /\ req.tokenOut = NoToken

\* C9 witness: a PUT /authorize carrying a token the guard would accept was
\* answered 400 by a process whose guard is attached.
C9_Witness ==
    /\ Handled /\ req.route = "authorize" /\ req.method = "PUT"
    /\ guard[req.proc].attached
    /\ ExpressJWT(guard[req.proc].options, req.token)
    /\ req.status = 400

\* C10: the secret changes hands only through the read-then-write race: a
\* write is pending only in a call that found the file absent, the persisted
\* secret is always one that a call returned, and two different secrets are
\* returned only after at least two such writes.
C10_OverwriteOnlyByRace ==
    /\ \A p \in Procs : call[p].active => call[p].sawAbsent
    /\ returned # {} => fs[SecretPath] \in returned
    /\ Cardinality(returned) >= 2 => writes >= 2
    /\ \A p \in Procs : guard[p].attached => GuardSecret(p) \in returned

\* C10 witness: two first uses both found the file absent and wrote different
\* secrets; a token signed with the overwritten secret is out, and it does
\* not verify against the persisted secret.
C10_Witness ==
    /\ writes >= 2
    /\ Cardinality(returned) >= 2
    /\ req.tokenOut.kind = "jwt"
    /\ req.tokenOut.sig # fs[SecretPath]
    /\ ~JWTVerify(req.tokenOut, fs[SecretPath], GuardOptions(fs[SecretPath], CollectionName))
    /\ \E p, q \in Procs : /\ guard[p].attached /\ guard[q].attached
                           /\ GuardSecret(p) # GuardSecret(q)

====
